---- MODULE Spec2Model ----
(***************************************************************************)
(* The falling-block game of src/src/main.rs: the Tetris struct, its       *)
(* commands (move_left, move_right, move_down, rotate) and the helpers     *)
(* they call (try_move, can_place, lock_piece, check_lines,                *)
(* spawn_new_piece), on the board of the MAX7219 build (8 x 32); the       *)
(* MAX7219 driver and the frame encoder; create_led_bits; and main, from   *)
(* the display's initialisation through the iterations of its loop         *)
(* (gravity timing, debounced buttons, drawing).                           *)
(***************************************************************************)
EXTENDS Integers, Sequences, FiniteSets, TLC

\* ------------------------------------------------------------ constants
BOARD_WIDTH == 8
BOARD_HEIGHT == 32
\* FALL_INTERVAL and the debounce window of main, in ms.
FALL_INTERVAL == 500
debounce_duration == 250
\* Pulse lengths of the LED strip, in ticks.
T0H == 40
T0L == 85
T1H == 80
T1L == 45

\* Bounds of the model.
\* Pieces locked after an initial state.
MaxLocks == 1
\* Runs of the interrupt handler of examples/interrupt.rs.
MaxInterrupts == 3
\* Rows left free above the stack a run without input starts on.
MaxIdleRows == 3
\* Consecutive move_right() calls in SpecMoveRight.
MaxRights == 6
\* The random source yields a value in 0..MaxRandom (a u32 in the code).
MaxRandom == 6
\* The clock is read in steps of Quantum ms: between two readings of main's
\* loop 1..MaxQuanta steps pass, and the exploration stops at MaxTime ms.
Quantum == 250
MaxQuanta == 4
MaxTime == 1500
\* can_place is called with origins up to PosMargin cells outside the range
\* in which some cell of a shape is on the board.
PosMargin == 1

None == "None"
Colors == {"Red", "Green", "Blue", "Yellow", "Cyan", "Magenta", "White"}

\* ------------------------------------------------------ integer widths
\* `v as i8` of a u8, and i8 addition (two's complement wrap).
AsI8(u) == IF u >= 128 THEN u - 256 ELSE u
I8(v) == ((v + 128) % 256) - 128
\* u8 subtraction wraps.
U8(v) == v % 256

\* --------------------------------------------------------- data model
\* A shape is the array [(u8, u8); 4] as a sequence of 4 pairs <<dx, dy>>.
\* TETROMINOS[idx + 1] is the code's TETROMINOS[idx].
TETROMINOS ==
  << [shape |-> << <<0, 1>>, <<1, 1>>, <<2, 1>>, <<3, 1>> >>, color |-> "Cyan"],
     [shape |-> << <<0, 0>>, <<0, 1>>, <<1, 0>>, <<1, 1>> >>, color |-> "Yellow"],
     [shape |-> << <<0, 1>>, <<1, 1>>, <<2, 1>>, <<1, 0>> >>, color |-> "Magenta"],
     [shape |-> << <<0, 0>>, <<1, 0>>, <<2, 0>>, <<2, 1>> >>, color |-> "Green"],
     [shape |-> << <<0, 1>>, <<1, 1>>, <<2, 1>>, <<2, 0>> >>, color |-> "Red"],
     [shape |-> << <<0, 0>>, <<1, 0>>, <<1, 1>>, <<2, 1>> >>, color |-> "Blue"],
     [shape |-> << <<0, 1>>, <<1, 1>>, <<1, 0>>, <<2, 0>> >>, color |-> "White"] >>

EmptyRow == [x \in 0..(BOARD_WIDTH - 1) |-> None]
EmptyBoard == [y \in 0..(BOARD_HEIGHT - 1) |-> EmptyRow]

\* ----------------------------------------------------------- can_place
\* One iteration of can_place's loop: whether its test makes can_place
\* return false, and the board cell <<x, y>> the test indexes, if any. The
\* operands of || are evaluated left to right, and the board is indexed only
\* when the three range tests before it fail and y >= 0 holds.
\* Faulty variant: a cell above the board (y < 0) makes can_place return false.
CellProbe_above_blocked(board, pos, d) ==
  LET x == I8(pos[1] + AsI8(d[1]))
      y == I8(pos[2] + AsI8(d[2]))
  IN  IF x < 0 THEN [blocked |-> TRUE, read |-> {}]
      ELSE IF x >= BOARD_WIDTH THEN [blocked |-> TRUE, read |-> {}]
      ELSE IF y >= BOARD_HEIGHT THEN [blocked |-> TRUE, read |-> {}]
      ELSE IF y >= 0
           THEN [blocked |-> board[y][x] # None, read |-> {<<x, y>>}]
           ELSE [blocked |-> TRUE, read |-> {}]

\* Faulty variant: the right wall is tested one column early.
CellProbe_wall_early(board, pos, d) ==
  LET x == I8(pos[1] + AsI8(d[1]))
      y == I8(pos[2] + AsI8(d[2]))
  IN  IF x < 0 THEN [blocked |-> TRUE, read |-> {}]
      ELSE IF x >= BOARD_WIDTH - 1 THEN [blocked |-> TRUE, read |-> {}]
      ELSE IF y >= BOARD_HEIGHT THEN [blocked |-> TRUE, read |-> {}]
      ELSE IF y >= 0
           THEN [blocked |-> board[y][x] # None, read |-> {<<x, y>>}]
           ELSE [blocked |-> FALSE, read |-> {}]

CellProbe(board, pos, d) ==
  LET x == I8(pos[1] + AsI8(d[1]))
      y == I8(pos[2] + AsI8(d[2]))
  IN  IF x < 0 THEN [blocked |-> TRUE, read |-> {}]
      ELSE IF x >= BOARD_WIDTH THEN [blocked |-> TRUE, read |-> {}]
      ELSE IF y >= BOARD_HEIGHT THEN [blocked |-> TRUE, read |-> {}]
      ELSE IF y >= 0
           THEN [blocked |-> board[y][x] # None, read |-> {<<x, y>>}]
           ELSE [blocked |-> FALSE, read |-> {}]

CellBlocked(board, pos, d) == CellProbe(board, pos, d).blocked

RECURSIVE can_place_from(_, _, _, _)
can_place_from(self, piece, pos, i) ==
  IF i > 4 THEN TRUE
  ELSE IF CellBlocked(self.board, pos, piece[i]) THEN FALSE
  ELSE can_place_from(self, piece, pos, i + 1)

can_place(self, piece, pos) == can_place_from(self, piece, pos, 1)

\* The board cells one call of can_place indexes: those of the iterations it
\* runs before it returns.
RECURSIVE can_place_reads_from(_, _, _, _)
can_place_reads_from(self, piece, pos, i) ==
  IF i > 4 THEN {}
  ELSE LET c == CellProbe(self.board, pos, piece[i])
       IN  IF c.blocked THEN c.read
           ELSE c.read \cup can_place_reads_from(self, piece, pos, i + 1)

can_place_reads(self, piece, pos) == can_place_reads_from(self, piece, pos, 1)

\* ---------------------------------------------------------- Tetris::new
\* The field `ran` is the random source the game owns, kept as the number
\* of values it has been asked for; the values themselves are inputs.
SpawnAtNew == <<2, 0>>

Tetris_new ==
  LET game == [board |-> EmptyBoard,
               current_piece |-> TETROMINOS[1],
               piece_pos |-> SpawnAtNew,
               score |-> 0,
               game_over |-> FALSE,
               ran |-> 0]
  IN  IF ~can_place(game, game.current_piece.shape, game.piece_pos)
      THEN [game EXCEPT !.game_over = TRUE]
      ELSE game

\* ------------------------------------------------------------ try_move
try_move(self, delta) ==
  IF self.game_over THEN [self |-> self, ret |-> FALSE]
  ELSE LET new_pos == <<I8(self.piece_pos[1] + delta[1]),
                        I8(self.piece_pos[2] + delta[2])>>
       IN  IF can_place(self, self.current_piece.shape, new_pos)
           THEN [self |-> [self EXCEPT !.piece_pos = new_pos], ret |-> TRUE]
           ELSE [self |-> self, ret |-> FALSE]

\* Faulty variant: move_left moves to the right.
move_left_mirrored(self) == try_move(self, <<1, 0>>)

move_left(self) == try_move(self, <<-1, 0>>)

move_right(self) == try_move(self, <<1, 0>>)

\* --------------------------------------------------------- check_lines
RowFull(row) == \A x \in 0..(BOARD_WIDTH - 1) : row[x] # None

\* The body of `for y in 0..BOARD_HEIGHT` when row y is full: rows 1..y take
\* the row above them (copied from the bottom up), row 0 becomes empty.
\* score is a u32; no run within the bounds gets near 2^32.
ClearLine(board, y) ==
  [yy \in 0..(BOARD_HEIGHT - 1) |->
     IF yy = 0 THEN EmptyRow
     ELSE IF yy <= y THEN board[yy - 1]
     ELSE board[yy]]

\* Faulty variant: the row after a cleared row is not examined.
RECURSIVE check_lines_from_skip(_, _)
check_lines_from_skip(self, y) ==
  IF y >= BOARD_HEIGHT THEN self
  ELSE IF RowFull(self.board[y])
       THEN check_lines_from_skip([self EXCEPT !.board = ClearLine(self.board, y),
                                               !.score = self.score + 100],
                                  y + 2)
       ELSE check_lines_from_skip(self, y + 1)

\* Faulty variant: the reward is added once per pass in which a row was
\* cleared, not once per cleared row.
RECURSIVE check_lines_from_one_reward(_, _)
check_lines_from_one_reward(self, y) ==
  IF y >= BOARD_HEIGHT THEN self
  ELSE IF RowFull(self.board[y])
       THEN LET s == check_lines_from_one_reward(
                       [self EXCEPT !.board = ClearLine(self.board, y)], y + 1)
            IN  [s EXCEPT !.score = self.score + 100]
       ELSE check_lines_from_one_reward(self, y + 1)

RECURSIVE check_lines_from(_, _)
check_lines_from(self, y) ==
  IF y >= BOARD_HEIGHT THEN self
  ELSE IF RowFull(self.board[y])
       THEN check_lines_from([self EXCEPT !.board = ClearLine(self.board, y),
                                          !.score = self.score + 100],
                             y + 1)
       ELSE check_lines_from(self, y + 1)

\* Faulty variant: the rows are scanned from the bottom up, each index once.
RECURSIVE check_lines_up_from(_, _)
check_lines_up_from(self, y) ==
  IF y < 0 THEN self
  ELSE IF RowFull(self.board[y])
       THEN check_lines_up_from([self EXCEPT !.board = ClearLine(self.board, y),
                                             !.score = self.score + 100],
                                y - 1)
       ELSE check_lines_up_from(self, y - 1)

check_lines_bottom_up(self) ==
  IF self.game_over THEN self ELSE check_lines_up_from(self, BOARD_HEIGHT - 1)

check_lines(self) ==
  IF self.game_over THEN self ELSE check_lines_from(self, 0)

\* ---------------------------------------------------------- lock_piece
\* `v as usize` of an i8: a negative v becomes an index beyond every array
\* (2^32 + v on the 32-bit target; 2^31 + v here, within TLC's integers).
AsUsize(v) == IF v >= 0 THEN v ELSE (2147483647 + v) + 1

\* Faulty variant: the loop over the shape stops one cell short.
RECURSIVE write_cells_three(_, _, _)
write_cells_three(self, board, i) ==
  IF i > 3 THEN board
  ELSE LET d == self.current_piece.shape[i]
           x == AsUsize(I8(self.piece_pos[1] + AsI8(d[1])))
           y == AsUsize(I8(self.piece_pos[2] + AsI8(d[2])))
       IN  write_cells_three(self,
                             [board EXCEPT ![y][x] = self.current_piece.color],
                             i + 1)

RECURSIVE write_cells(_, _, _)
write_cells(self, board, i) ==
  IF i > 4 THEN board
  ELSE LET d == self.current_piece.shape[i]
           x == AsUsize(I8(self.piece_pos[1] + AsI8(d[1])))
           y == AsUsize(I8(self.piece_pos[2] + AsI8(d[2])))
       IN  write_cells(self,
                       [board EXCEPT ![y][x] = self.current_piece.color],
                       i + 1)

lock_piece(self) ==
  IF self.game_over THEN self
  ELSE check_lines([self EXCEPT !.board = write_cells(self, self.board, 1)])

\* ----------------------------------------------------- spawn_new_piece
\* Faulty variant: the new piece is placed one column further right.
SpawnAtLock_four == <<4, 0>>

SpawnAtLock == <<3, 0>>

\* Faulty variant: a piece that does not fit is spawned all the same.
spawn_new_piece_never_over(self, random) ==
  IF self.game_over THEN self
  ELSE LET idx == random % 7
       IN  [self EXCEPT !.ran = @ + 1,
                        !.current_piece = TETROMINOS[idx + 1],
                        !.piece_pos = SpawnAtLock]

\* Faulty variant: the index is taken modulo 6.
spawn_new_piece_mod_six(self, random) ==
  IF self.game_over THEN self
  ELSE LET idx == random % 6
           s == [self EXCEPT !.ran = @ + 1,
                             !.current_piece = TETROMINOS[idx + 1],
                             !.piece_pos = SpawnAtLock]
       IN  IF ~can_place(s, s.current_piece.shape, s.piece_pos)
           THEN [s EXCEPT !.game_over = TRUE]
           ELSE s

\* `random` is the value self.ran.random() returns.
spawn_new_piece(self, random) ==
  IF self.game_over THEN self
  ELSE LET idx == random % 7
           s == [self EXCEPT !.ran = @ + 1,
                             !.current_piece = TETROMINOS[idx + 1],
                             !.piece_pos = SpawnAtLock]
       IN  IF ~can_place(s, s.current_piece.shape, s.piece_pos)
           THEN [s EXCEPT !.game_over = TRUE]
           ELSE s

\* ----------------------------------------------------------- move_down
\* Faulty variant: move_down without its game_over test.
move_down_unguarded(self, random) ==
  LET t == try_move(self, <<0, 1>>)
  IN  IF ~t.ret
      THEN [self |-> spawn_new_piece(lock_piece(t.self), random), ret |-> TRUE]
      ELSE [self |-> t.self, ret |-> FALSE]

\* Faulty variant: the new piece is spawned before the old one is locked.
move_down_spawn_first(self, random) ==
  IF self.game_over THEN [self |-> self, ret |-> FALSE]
  ELSE LET t == try_move(self, <<0, 1>>)
       IN  IF ~t.ret
           THEN [self |-> lock_piece(spawn_new_piece(t.self, random)),
                 ret |-> TRUE]
           ELSE [self |-> t.self, ret |-> FALSE]

move_down(self, random) ==
  IF self.game_over THEN [self |-> self, ret |-> FALSE]
  ELSE LET t == try_move(self, <<0, 1>>)
       IN  IF ~t.ret
           THEN [self |-> spawn_new_piece(lock_piece(t.self), random),
                 ret |-> TRUE]
           ELSE [self |-> t.self, ret |-> FALSE]

\* -------------------------------------------------------------- rotate
\* Faulty variant: the quarter turn the other way, (x, y) -> (3 - y, x).
Rotated_other_way(shape) ==
  [i \in 1..4 |-> <<U8(3 - shape[i][2]), shape[i][1]>>]

\* Faulty variant: the loop stops one cell short; rotated[3] stays (0, 0).
Rotated_three_cells(shape) ==
  [i \in 1..4 |-> IF i < 4 THEN <<shape[i][2], U8(3 - shape[i][1])>>
                  ELSE <<0, 0>>]

Rotated(shape) ==
  [i \in 1..4 |-> <<shape[i][2], U8(3 - shape[i][1])>>]

\* Faulty variant: a rotation lifts the piece one row when it fits there.
rotate_kicks_up(self) ==
  IF self.game_over THEN [self |-> self, ret |-> FALSE]
  ELSE LET rotated == Rotated(self.current_piece.shape)
           up == <<self.piece_pos[1], I8(self.piece_pos[2] - 1)>>
       IN  IF can_place(self, rotated, up)
           THEN [self |-> [self EXCEPT !.current_piece.shape = rotated,
                                       !.piece_pos = up],
                 ret |-> TRUE]
           ELSE [self |-> self, ret |-> FALSE]

rotate(self) ==
  IF self.game_over THEN [self |-> self, ret |-> FALSE]
  ELSE LET rotated == Rotated(self.current_piece.shape)
       IN  IF can_place(self, rotated, self.piece_pos)
           THEN [self |-> [self EXCEPT !.current_piece.shape = rotated],
                 ret |-> TRUE]
           ELSE [self |-> self, ret |-> FALSE]

\* ----------------------------------------------------- create_led_bits
\* PulseCode::new(level1, length1, level2, length2) of the HAL, kept as its
\* four arguments; PulseCode::empty() is the code of all zeros.
PulseCode_new(level1, length1, level2, length2) ==
  [level1 |-> level1, length1 |-> length1,
   level2 |-> level2, length2 |-> length2]

PulseCode_empty == PulseCode_new("Low", 0, "Low", 0)

\* (byte & (1 << bit)) != 0 on a u8.
BitSet(byte, bit) == (byte \div (2 ^ bit)) % 2 # 0

\* Faulty variant: the bytes are taken in the order r, g, b, w.
led_bytes_rgbw(r, g, b, w) == <<r, g, b, w>>

\* let bytes = [g, r, b, w]
led_bytes(r, g, b, w) == <<g, r, b, w>>

\* for byte in bytes { for bit in (0..8).rev() { data[idx] = ..; idx += 1 } }
\* from the n-th byte and `bit` on.
RECURSIVE fill_led_bits(_, _, _, _, _)
fill_led_bits(bytes, n, bit, idx, data) ==
  IF n > Len(bytes) THEN data
  ELSE IF bit < 0 THEN fill_led_bits(bytes, n + 1, 7, idx, data)
  ELSE fill_led_bits(bytes, n, bit - 1, idx + 1,
                     [data EXCEPT ![idx] =
                        IF BitSet(bytes[n], bit)
                        THEN PulseCode_new("High", T1H, "Low", T1L)
                        ELSE PulseCode_new("High", T0H, "Low", T0L)])

create_led_bits(r, g, b, w) ==
  LET data == fill_led_bits(led_bytes(r, g, b, w), 1, 7, 0,
                            [i \in 0..32 |-> PulseCode_empty])
  IN  [data EXCEPT ![32] = PulseCode_new("Low", 800, "Low", 0)]

\* ------------------------------------------------------------- Max7219
\* A register write is kept as the call's arguments, the buffer handed to
\* spi.write (bytes 0..7) and whether an index into the buffer was out of
\* range (a panic in the code).
\* Faulty variant: module k is put at position k - 1 of the frame.
write_reg_unreversed(addr, reg, data) ==
  LET idx == U8(addr - 1) * 2
  IN  [addr |-> addr, reg |-> reg, data |-> data,
       oob |-> idx + 1 > 7,
       buffer |-> [i \in 0..7 |-> IF i = idx THEN reg
                                  ELSE IF i = idx + 1 THEN data
                                  ELSE 0]]

write_reg(addr, reg, data) ==
  LET idx == U8(4 - addr) * 2
  IN  [addr |-> addr, reg |-> reg, data |-> data,
       oob |-> idx + 1 > 7,
       buffer |-> [i \in 0..7 |-> IF i = idx THEN reg
                                  ELSE IF i = idx + 1 THEN data
                                  ELSE 0]]

set_row(addr, row, value) == write_reg(addr, U8(row + 1), value)

\* Faulty variant: the shutdown register is written before the others.
Max7219_init_shutdown_first ==
  [i \in 1..20 |->
     LET addr == ((i - 1) \div 5) + 1
     IN  CASE (i - 1) % 5 = 0 -> write_reg(addr, 12, 1)
           [] (i - 1) % 5 = 1 -> write_reg(addr, 9, 0)
           [] (i - 1) % 5 = 2 -> write_reg(addr, 10, 1)
           [] (i - 1) % 5 = 3 -> write_reg(addr, 11, 7)
           [] OTHER -> write_reg(addr, 15, 0)]

\* The writes of init() in the order it issues them: for addr in 1..=4,
\* registers 0x09, 0x0A, 0x0B, 0x0C, 0x0F.
Max7219_init ==
  [i \in 1..20 |->
     LET addr == ((i - 1) \div 5) + 1
     IN  CASE (i - 1) % 5 = 0 -> write_reg(addr, 9, 0)
           [] (i - 1) % 5 = 1 -> write_reg(addr, 10, 1)
           [] (i - 1) % 5 = 2 -> write_reg(addr, 11, 7)
           [] (i - 1) % 5 = 3 -> write_reg(addr, 12, 1)
           [] OTHER -> write_reg(addr, 15, 0)]

\* The writes of clear(): for addr in 1..=4, for row in 0..8.
Max7219_clear ==
  [i \in 1..32 |-> set_row(((i - 1) \div 8) + 1, (i - 1) % 8, 0)]

\* -------------------------------------------------------------- render
\* byte | (1 << bit) on a u8.
BitOr(byte, bit) ==
  IF (byte \div (2 ^ bit)) % 2 = 1 THEN byte ELSE U8(byte + 2 ^ bit)

\* `occupied` of the render loop for the cell (board_x, board_y).
\* Faulty variant: the active piece is drawn whether the game is over or
\* not.
occupied_piece_always(self, board_x, board_y) ==
  \/ self.board[board_y][board_x] # None
  \/ \E i \in 1..4 :
       LET d == self.current_piece.shape[i]
       IN  /\ AsUsize(I8(self.piece_pos[1] + AsI8(d[1]))) = board_x
           /\ AsUsize(I8(self.piece_pos[2] + AsI8(d[2]))) = board_y

occupied(self, board_x, board_y) ==
  \/ self.board[board_y][board_x] # None
  \/ /\ ~self.game_over
     /\ \E i \in 1..4 :
          LET d == self.current_piece.shape[i]
          IN  /\ AsUsize(I8(self.piece_pos[1] + AsI8(d[1]))) = board_x
              /\ AsUsize(I8(self.piece_pos[2] + AsI8(d[2]))) = board_y

\* Faulty variant: the bit of local row r is bit r.
RECURSIVE column_from_mirrored(_, _, _, _, _)
column_from_mirrored(self, y_start, board_x, board_y, byte) ==
  IF board_y >= y_start + 8 THEN byte
  ELSE LET local_y == board_y - y_start
       IN  column_from_mirrored(self, y_start, board_x, board_y + 1,
                                IF occupied(self, board_x, board_y)
                                THEN BitOr(byte, local_y)
                                ELSE byte)

\* column_data[board_x] as the loop over board_y leaves it.
RECURSIVE column_from(_, _, _, _, _)
column_from(self, y_start, board_x, board_y, byte) ==
  IF board_y >= y_start + 8 THEN byte
  ELSE LET local_y == board_y - y_start
       IN  column_from(self, y_start, board_x, board_y + 1,
                       IF occupied(self, board_x, board_y)
                       THEN BitOr(byte, 7 - local_y)
                       ELSE byte)

column_data(self, module) ==
  [board_x \in 0..(BOARD_WIDTH - 1) |->
     column_from(self, module * 8, board_x, module * 8, 0)]

\* Faulty variant: band `module` is sent to module `module + 1`.
render_rows_unreversed(self) ==
  LET data == [module \in 0..3 |-> column_data(self, module)]
  IN  [i \in 1..32 |->
         LET module == (i - 1) \div 8
             col == (i - 1) % 8
         IN  set_row(U8(module + 1), col, data[module][col])]

\* The row writes of one frame: for module in 0..4, for col in 0..8.
render_rows(self) ==
  LET data == [module \in 0..3 |-> column_data(self, module)]
  IN  [i \in 1..32 |->
         LET module == (i - 1) \div 8
             col == (i - 1) % 8
         IN  set_row(U8(4 - module), col, data[module][col])]

\* Faulty variant: the frame is sent without blanking first.
draw_without_clear(self) == render_rows(self)

\* max7219.clear() followed by the row writes.
draw(self) == Max7219_clear \o render_rows(self)

\* The registers of the four modules after the writes `ws`, `regs` before.
RECURSIVE latch(_, _, _)
latch(regs, ws, i) ==
  IF i > Len(ws) THEN regs
  ELSE latch([regs EXCEPT ![ws[i].addr][ws[i].reg] = ws[i].data], ws, i + 1)

\* No register has been written (-1).
Unwritten == [addr \in 1..4 |-> [reg \in 0..15 |-> -1]]

\* --------------------------------------------------------------- state
VARIABLES
  game,     \* the Tetris struct `game` of main
  pre,      \* `game` as it was before the last command
  op,       \* the command called last ("new" after construction)
  ret,      \* what that command returned
  drawn,    \* the value the random source returned last (-1: not read yet)
  locks,    \* pieces locked since construction
  removed,  \* times check_lines ran its `Clear line` block since construction
  budget,   \* locks left before the exploration stops
  calls,    \* the calls made since the initial state (specifications of
            \* one function)
  pc,       \* where main is: "init", "clear", "setup", "loop", "halt" (the
            \* loop has been left), "done" (the final `loop {}`)
  now,      \* the last reading of the clock, in ms
  last_update,    \* main's last_update
  last_key_time,  \* main's last_key_time
  sent,     \* the register writes of the last step of main that issued
            \* any, in order
  display,  \* the registers of the four modules
  iter,     \* the last loop iteration: whether there was one, the levels
            \* read, the commands applied, last_update and last_key_time
            \* before it
  intr      \* examples/interrupt.rs: its statics, its LED, where its main
            \* and its handler are

gameVars == <<game, pre, op, ret, drawn, locks, removed, budget, calls>>

loopVars == <<pc, now, last_update, last_key_time, sent, display, iter>>

mainVars ==
  <<pc, now, last_update, last_key_time, sent, display, iter, intr>>

vars ==
  <<game, pre, op, ret, drawn, locks, removed, budget, calls, pc, now,
    last_update, last_key_time, sent, display, iter, intr>>

\* Values of the random source beyond the table's length, up to the
\* largest integer of the checker (the source returns a u32).
RandomSamples == {7, 13, 255, 65536, 2147483647}

RandomValues == (0..MaxRandom) \cup RandomSamples

\* What main observes of the game: the struct and the outcome of the last call.
Obs ==
  [game |-> game, pre |-> pre, op |-> op, ret |-> ret, drawn |-> drawn,
   locks |-> locks, removed |-> removed]

\* let mut game = Tetris::new(rng)
Call_new ==
  [game |-> Tetris_new, pre |-> Tetris_new, op |-> "new", ret |-> FALSE,
   drawn |-> -1, locks |-> 0, removed |-> 0]

\* game.move_left()
Call_move_left(o) ==
  LET r == move_left(o.game)
  IN  [o EXCEPT !.game = r.self, !.pre = o.game, !.op = "move_left",
                !.ret = r.ret]

\* game.move_right()
Call_move_right(o) ==
  LET r == move_right(o.game)
  IN  [o EXCEPT !.game = r.self, !.pre = o.game, !.op = "move_right",
                !.ret = r.ret]

\* game.rotate()
Call_rotate(o) ==
  LET r == rotate(o.game)
  IN  [o EXCEPT !.game = r.self, !.pre = o.game, !.op = "rotate",
                !.ret = r.ret]

\* Whether move_down on `self` locks the piece; only then it reaches
\* spawn_new_piece's self.ran.random().
WillLock(self) == ~self.game_over /\ ~try_move(self, <<0, 1>>).ret

\* How many times the loop of check_lines runs its `Clear line` block from
\* row y on.
RECURSIVE cleared_from(_, _)
cleared_from(self, y) ==
  IF y >= BOARD_HEIGHT THEN 0
  ELSE IF RowFull(self.board[y])
       THEN 1 + cleared_from([self EXCEPT !.board = ClearLine(self.board, y)],
                             y + 1)
       ELSE cleared_from(self, y + 1)

\* The same for the check_lines call of lock_piece on `self`.
lock_piece_cleared(self) ==
  IF self.game_over THEN 0
  ELSE cleared_from([self EXCEPT !.board = write_cells(self, self.board, 1)], 0)

\* game.move_down(); `random` is what the random source returns if it is read.
Call_move_down(o, random) ==
  LET r == move_down(o.game, random)
      locked == WillLock(o.game)
  IN  [game |-> r.self, pre |-> o.game, op |-> "move_down", ret |-> r.ret,
       drawn |-> IF locked THEN random ELSE o.drawn,
       locks |-> IF locked THEN o.locks + 1 ELSE o.locks,
       removed |-> IF locked THEN o.removed + lock_piece_cleared(o.game)
                   ELSE o.removed]

\* ------------------------------------------------- played-in positions
\* Positions deep in a game (a stack near the top, rows one piece short of
\* full) are reached by playing fixed command sequences from Tetris::new with
\* the operators above. A placement [rot, dx, next] is: rotate() rot times,
\* move_right() dx times (move_left() -dx times), then move_down() until the
\* piece locks, the random source returning `next` at the spawn.
RECURSIVE RotateN(_, _)
RotateN(o, n) == IF n <= 0 THEN o ELSE RotateN(Call_rotate(o), n - 1)

RECURSIVE ShiftN(_, _)
ShiftN(o, dx) ==
  IF dx = 0 THEN o
  ELSE IF dx > 0 THEN ShiftN(Call_move_right(o), dx - 1)
  ELSE ShiftN(Call_move_left(o), dx + 1)

RECURSIVE DownN(_, _)
DownN(o, n) ==
  IF n <= 0 \/ WillLock(o.game) THEN o ELSE DownN(Call_move_down(o, 0), n - 1)

RECURSIVE Drop(_, _)
Drop(o, next) ==
  IF o.game.game_over THEN o
  ELSE IF WillLock(o.game) THEN Call_move_down(o, next)
  ELSE Drop(Call_move_down(o, next), next)

Place(o, p) == Drop(ShiftN(RotateN(o, p.rot), p.dx), p.next)

RECURSIVE Play(_, _, _)
Play(o, script, i) ==
  IF i > Len(script) \/ o.game.game_over THEN o
  ELSE Play(Place(o, script[i]), script, i + 1)

\* An I piece stood upright (one rotation puts it in column origin + 1) and
\* dropped in column `col`.
Upright(o, col, next) ==
  Place(o, [rot |-> 1, dx |-> col - (o.game.piece_pos[1] + 1), next |-> next])

\* `layers` layers of upright I pieces in columns 1..7: rows
\* BOARD_HEIGHT - 4 * layers .. BOARD_HEIGHT - 1 full but for column 0.
RECURSIVE Foundation(_, _)
Foundation(o, n) ==
  IF n <= 0 \/ o.game.game_over THEN o
  ELSE Foundation(Upright(o, 1 + ((7 * 64 - n) % 7), 0), n - 1)

\* Rows 4..31 full but for column 0, which is an open shaft: an upright I
\* dropped in it fills four rows at the bottom, one locked under the spawn
\* cells ends the game.
Tower(next) ==
  LET f == Foundation(Call_new, 7 * 7 - 1)
  IN  Upright(f, 7, next)

\* On rows 8..31 of such a stack: rows 5 and 7 full but for column 7, row 6
\* with a second gap at column 0.
Gapped(next) ==
  Play(Foundation(Call_new, 6 * 7),
       << [rot |-> 0, dx |-> -3, next |-> 4],
          [rot |-> 0, dx |-> 1, next |-> 0],
          [rot |-> 0, dx |-> -2, next |-> 2],
          [rot |-> 2, dx |-> 0, next |-> 0],
          [rot |-> 0, dx |-> -3, next |-> next] >>,
       1)

\* On rows 8..31 of such a stack: rows 5, 6 and 7 full but for column 7.
Shelf(next) ==
  LET s == Play(Foundation(Call_new, 6 * 7),
                << [rot |-> 0, dx |-> -3, next |-> 0],
                   [rot |-> 0, dx |-> -3, next |-> 0],
                   [rot |-> 0, dx |-> -3, next |-> 0] >>,
                1)
  IN  Upright(Upright(Upright(s, 4, 0), 5, 0), 6, next)

Starts ==
  {Call_new} \cup {Tower(n) : n \in 0..6} \cup {Gapped(n) : n \in 0..6}
             \cup {Shelf(n) : n \in 0..6}

\* One gravity step from losing: on the tower two I pieces have been dropped
\* from the spawn position, and the third rests on them in rows 0 and 1.
Brink ==
  Play(Tower(0),
       << [rot |-> 0, dx |-> 0, next |-> 0],
          [rot |-> 0, dx |-> 0, next |-> 0] >>,
       1)

\* The game lost by that step, the random source returning `next`.
Over(next) == Call_move_down(Brink, next)

\* ------------------------------------------- examples/interrupt.rs
\* The statics BUTTON and LED_STATE (each a Mutex<RefCell<..>>: its value
\* and who holds a borrow of it), the button's pin (listening, interrupt
\* status), the LED, the local led_state of main, the value of *led_state
\* the handler tested (tmp), and where main (mpc) and the handler (hpc)
\* are. in_cs: who is inside critical_section::with.
\* runs, seen, ignored and run record the handler's runs: how many there
\* were, how many found the interrupt status set, how many found no
\* button, and the last one.
IntrStart ==
  [mpc |-> "start", hpc |-> "idle", in_cs |-> {},
   BUTTON |-> "None", LED_STATE |-> TRUE,
   borrowed |-> [BUTTON |-> "free", LED_STATE |-> "free"],
   listening |-> FALSE, status |-> FALSE,
   led |-> "High", led_state |-> TRUE, tmp |-> TRUE,
   runs |-> 0, seen |-> 0, ignored |-> 0,
   run |-> [ran |-> FALSE, registered |-> FALSE, saw |-> FALSE,
            before |-> TRUE, after |-> TRUE]]

\* ---------------------------------------------------------------- Spec
\* main outside its loop iterations: nothing read, nothing sent.
NoIteration ==
  [ran |-> FALSE,
   levels |-> [right |-> FALSE, left |-> FALSE, middle |-> FALSE],
   applied |-> <<>>, prev_update |-> 0, prev_key_time |-> 0]

IdleMain ==
  [pc |-> "loop", now |-> 0, last_update |-> 0, last_key_time |-> 0,
   sent |-> <<>>, display |-> Unwritten, iter |-> NoIteration]

MainIs(m) ==
  /\ pc = m.pc
  /\ now = m.now
  /\ last_update = m.last_update
  /\ last_key_time = m.last_key_time
  /\ sent = m.sent
  /\ display = m.display
  /\ iter = m.iter
  /\ intr = IntrStart

StartIn(S) ==
  /\ \E o \in S :
       /\ game = o.game
       /\ pre = o.pre
       /\ op = o.op
       /\ ret = o.ret
       /\ drawn = o.drawn
       /\ locks = o.locks
       /\ removed = o.removed
  /\ budget = MaxLocks
  /\ calls = <<>>
  /\ MainIs(IdleMain)

Init == StartIn(Starts)

Observed(n) ==
  /\ game' = n.game
  /\ pre' = n.pre
  /\ op' = n.op
  /\ ret' = n.ret
  /\ drawn' = n.drawn
  /\ locks' = n.locks
  /\ removed' = n.removed
  /\ budget' = budget - (n.locks - locks)
  /\ UNCHANGED mainVars

Commit(n) == Observed(n) /\ UNCHANGED calls

\* The exploration stops at a piece spawned with no lock left to explore;
\* a game that is over takes commands for ever.
Bounded == budget > 0 \/ game.game_over

MoveLeft == Bounded /\ Commit(Call_move_left(Obs))

MoveRight == Bounded /\ Commit(Call_move_right(Obs))

MoveDown ==
  /\ Bounded
  /\ IF WillLock(game)
     THEN \E random \in RandomValues : Commit(Call_move_down(Obs, random))
     ELSE Commit(Call_move_down(Obs, 0))

Rotate == Bounded /\ Commit(Call_rotate(Obs))

Next == MoveLeft \/ MoveRight \/ MoveDown \/ Rotate

Spec == Init /\ [][Next]_vars

\* -------------------------------------------------------- SpecCanPlace
\* can_place as a function of its arguments: one call on the board of a
\* game, with any shape a piece can take and any origin around the board.
RECURSIVE RotatedN(_, _)
RotatedN(shape, n) == IF n <= 0 THEN shape ELSE RotatedN(Rotated(shape), n - 1)

ProbeShapes == {RotatedN(TETROMINOS[i].shape, n) : i \in 1..7, n \in 0..3}

ProbePositions ==
  ((0 - 3 - PosMargin)..(BOARD_WIDTH - 1 + PosMargin))
    \X ((0 - 3 - PosMargin)..(BOARD_HEIGHT - 1 + PosMargin))

ProbeStarts == {Call_new, Tower(0), Gapped(0)}

InitCanPlace == StartIn(ProbeStarts)

CallCanPlace ==
  /\ calls = <<>>
  /\ \E piece \in ProbeShapes, pos \in ProbePositions :
       calls' = << [op |-> "can_place", piece |-> piece, pos |-> pos,
                    ret |-> can_place(game, piece, pos),
                    reads |-> can_place_reads(game, piece, pos)] >>
  /\ UNCHANGED <<game, pre, op, ret, drawn, locks, removed, budget>>
  /\ UNCHANGED mainVars

NextCanPlace == CallCanPlace

SpecCanPlace == InitCanPlace /\ [][NextCanPlace]_vars

\* ---------------------------------------------------------- SpecRotate
\* Runs of consecutive rotate() calls: the piece of a played-in position is
\* rotated, let fall and shifted, and then rotate() is called four times
\* with no other command in between.
RotateStarts ==
  {ShiftN(DownN(RotateN(o, r), m), dx) :
     o \in Starts, r \in 0..3, m \in 0..2, dx \in (0 - 4)..4}

InitRotate == StartIn(RotateStarts)

RotateCall ==
  /\ Len(calls) < 4
  /\ Observed(Call_rotate(Obs))
  /\ calls' = Append(calls, [op |-> "rotate",
                             before |-> game.current_piece.shape,
                             ret |-> rotate(game).ret])

NextRotate == RotateCall

SpecRotate == InitRotate /\ [][NextRotate]_vars

\* ------------------------------------------------------------ SpecFall
\* The commands of Spec from a piece just spawned, with the gravity steps
\* applied to the active piece kept in `calls`: the piece they were applied
\* to (the number of locks before it) and the y of its origin before the
\* step. The steps of a piece are dropped at the first step of the next.
FallLeft == Bounded /\ Observed(Call_move_left(Obs)) /\ UNCHANGED calls

FallRight == Bounded /\ Observed(Call_move_right(Obs)) /\ UNCHANGED calls

FallRotate == Bounded /\ Observed(Call_rotate(Obs)) /\ UNCHANGED calls

FallDown ==
  /\ Bounded
  /\ IF WillLock(game)
     THEN \E random \in RandomValues : Observed(Call_move_down(Obs, random))
     ELSE Observed(Call_move_down(Obs, 0))
  /\ calls' =
       IF game.game_over THEN calls
       ELSE Append(SelectSeq(calls, LAMBDA c : c.piece = locks),
                   [op |-> "move_down", piece |-> locks,
                    y |-> game.piece_pos[2]])

NextFall == FallLeft \/ FallRight \/ FallDown \/ FallRotate

SpecFall == Init /\ [][NextFall]_vars

\* ------------------------------------------------------- SpecMoveRight
\* Runs of consecutive move_right() calls on the empty board. The board is
\* empty after Tetris::new, and again when two I pieces laid side by side
\* on the bottom row have been cleared; the piece is then turned and let
\* fall a few rows, or left where it was spawned.
Cleared(next) ==
  Play(Call_new,
       << [rot |-> 0, dx |-> -2, next |-> 0],
          [rot |-> 0, dx |-> 1, next |-> next] >>,
       1)

MoveRightStarts ==
  {DownN(RotateN(o, r), m) :
     o \in {Call_new} \cup {Cleared(n) : n \in 0..6}, r \in 0..3, m \in 0..2}

InitMoveRight == StartIn(MoveRightStarts)

MoveRightCall ==
  /\ Len(calls) < MaxRights
  /\ Observed(Call_move_right(Obs))
  /\ calls' = Append(calls, [op |-> "move_right",
                             shape |-> game.current_piece.shape,
                             pos |-> game.piece_pos,
                             ret |-> move_right(game).ret])

NextMoveRight == MoveRightCall

SpecMoveRight == InitMoveRight /\ [][NextMoveRight]_vars

\* ------------------------------------------------------------ SpecLoop
\* main: init() and clear() of the display, Tetris::new and the two
\* timestamps, then the loop; every iteration reads the clock, applies the
\* gravity step and the buttons, and draws the frame.
Levels == [right : BOOLEAN, left : BOOLEAN, middle : BOOLEAN]

\* What one iteration works on: the game, the two timestamps and (for the
\* record) the commands it has applied.
LoopState ==
  [obs |-> Obs, last_update |-> last_update, last_key_time |-> last_key_time,
   applied |-> <<>>]

\* Faulty variant: the gravity step needs more than the interval.
Gravity_strict(st, t, random) ==
  IF t - st.last_update > FALL_INTERVAL
  THEN [st EXCEPT !.obs = Call_move_down(st.obs, random),
                  !.last_update = t,
                  !.applied = Append(@, "move_down")]
  ELSE st

\* if now - last_update >= fall_interval { game.move_down(); last_update = now }
Gravity(st, t, random) ==
  IF t - st.last_update >= FALL_INTERVAL
  THEN [st EXCEPT !.obs = Call_move_down(st.obs, random),
                  !.last_update = t,
                  !.applied = Append(@, "move_down")]
  ELSE st

Apply(o, cmd) ==
  CASE cmd = "move_right" -> Call_move_right(o)
    [] cmd = "move_left" -> Call_move_left(o)
    [] OTHER -> Call_rotate(o)

\* Faulty variant: an action is accepted without setting last_key_time.
Button_no_stamp(st, t, low, cmd) ==
  IF low /\ t - st.last_key_time > debounce_duration
  THEN [st EXCEPT !.obs = Apply(st.obs, cmd),
                  !.applied = Append(@, cmd)]
  ELSE st

\* if button.is_low() { if now - last_key_time > debounce_duration {
\*   last_key_time = now; game.<cmd>() } }
Button(st, t, low, cmd) ==
  IF low /\ t - st.last_key_time > debounce_duration
  THEN [st EXCEPT !.last_key_time = t,
                  !.obs = Apply(st.obs, cmd),
                  !.applied = Append(@, cmd)]
  ELSE st

\* Faulty variant: the left button is polled before the right one.
Iteration_left_first(st, t, levels, random) ==
  CHOOSE m \in
    {Button(r, t, levels.middle, "rotate") :
       r \in {Button(l, t, levels.right, "move_right") :
                l \in {Button(g, t, levels.left, "move_left") :
                         g \in {Gravity(s, t, random) : s \in {st}}}}} : TRUE

\* The body of the loop down to the drawing, the clock reading t: the
\* gravity step, then the right, left and middle buttons, each on the state
\* the one before left.
Iteration(st, t, levels, random) ==
  CHOOSE m \in
    {Button(l, t, levels.middle, "rotate") :
       l \in {Button(r, t, levels.left, "move_left") :
                r \in {Button(g, t, levels.right, "move_right") :
                         g \in {Gravity(s, t, random) : s \in {st}}}}} : TRUE

\* The display after init() and clear().
Configured == latch(Unwritten, Max7219_init \o Max7219_clear, 1)

Booting ==
  [obs |-> Call_new,
   main |-> [IdleMain EXCEPT !.pc = "init"]]

\* main at the end of an iteration that applied nothing, the game in a
\* played-in position.
InLoop(o) ==
  [obs |-> o,
   main |-> [IdleMain EXCEPT !.sent = draw(o.game),
                             !.display = latch(Configured, draw(o.game), 1),
                             !.iter.ran = TRUE]]

LoopStarts == {Booting, InLoop(Brink)}

InitLoop ==
  \E e \in LoopStarts :
    /\ game = e.obs.game
    /\ pre = e.obs.pre
    /\ op = e.obs.op
    /\ ret = e.obs.ret
    /\ drawn = e.obs.drawn
    /\ locks = e.obs.locks
    /\ removed = e.obs.removed
    /\ budget = MaxLocks
    /\ calls = <<>>
    /\ MainIs(e.main)

GameBecomes(n) ==
  /\ game' = n.game
  /\ pre' = n.pre
  /\ op' = n.op
  /\ ret' = n.ret
  /\ drawn' = n.drawn
  /\ locks' = n.locks
  /\ removed' = n.removed

GameIs(n) == GameBecomes(n) /\ UNCHANGED <<budget, calls>>

\* max7219.init().await
InitDisplay ==
  /\ pc = "init"
  /\ pc' = "clear"
  /\ sent' = Max7219_init
  /\ display' = latch(display, Max7219_init, 1)
  /\ UNCHANGED <<now, last_update, last_key_time, iter, intr>>
  /\ GameIs(Obs)

\* max7219.clear().await
ClearDisplay ==
  /\ pc = "clear"
  /\ pc' = "setup"
  /\ sent' = Max7219_clear
  /\ display' = latch(display, Max7219_clear, 1)
  /\ UNCHANGED <<now, last_update, last_key_time, iter, intr>>
  /\ GameIs(Obs)

\* Tetris::new(rng) and the two readings of the clock before the loop.
Setup ==
  /\ pc = "setup"
  /\ pc' = "loop"
  /\ \E d \in {0, Quantum} :
       /\ last_update' = now
       /\ last_key_time' = now + d
       /\ now' = now + d
  /\ sent' = <<>>
  /\ UNCHANGED <<display, iter, intr>>
  /\ GameIs(Call_new)

\* pub fn is_game_over(&self) -> bool
is_game_over(self) == self.game_over

\* Faulty variant: the loop is never left.
LoopExit_never(self) == "loop"

\* if game.is_game_over() { break 'game_loop; }: where main is after it.
LoopExit(self) == IF is_game_over(self) THEN "halt" ELSE "loop"

Iterated(t, levels, random) ==
  /\ now' = t
  /\ \E st \in {Iteration(LoopState, t, levels, random)} :
       /\ last_update' = st.last_update
       /\ last_key_time' = st.last_key_time
       /\ iter' = [ran |-> TRUE, levels |-> levels, applied |-> st.applied,
                   prev_update |-> last_update,
                   prev_key_time |-> last_key_time]
       /\ GameIs(st.obs)
       /\ \E ws \in {draw(st.obs.game)} :
            /\ sent' = ws
            /\ display' = latch(display, ws, 1)
       /\ pc' = LoopExit(st.obs.game)
  /\ UNCHANGED intr

\* One iteration of 'game_loop. The random source is read only by a
\* gravity step that locks the piece.
Iterate ==
  /\ pc = "loop"
  /\ \E k \in 1..MaxQuanta, levels \in Levels :
       LET t == now + k * Quantum
       IN  /\ t <= MaxTime
           /\ IF t - last_update >= FALL_INTERVAL /\ WillLock(game)
              THEN \E random \in RandomValues : Iterated(t, levels, random)
              ELSE Iterated(t, levels, 0)

\* After the break: println!("Thanks for playing! ...") and `loop {}`,
\* which calls nothing.
Exit ==
  /\ pc = "halt"
  /\ pc' = "done"
  /\ UNCHANGED <<now, last_update, last_key_time, sent, display, iter, intr>>
  /\ GameIs(Obs)

NextLoop == InitDisplay \/ ClearDisplay \/ Setup \/ Iterate \/ Exit

SpecLoop == InitLoop /\ [][NextLoop]_vars

\* The clock advances and the loop runs on: `let now = time::Instant::now()`
\* of the next iteration is reached and reads a later time. Iterate is the
\* only step that changes `now` in the loop, and it can be taken whenever
\* ClockRead can.
ClockRead ==
  /\ pc = "loop"
  /\ \E k \in 1..MaxQuanta : now' = now + k * Quantum /\ now' <= MaxTime

SpecLoopFair == SpecLoop /\ WF_now(ClockRead)

\* --------------------------------------------------------- SpecNoInput
\* The loop with no button ever low: every iteration applies at most the
\* gravity step. The game starts on a stack that unmoved pieces have built
\* (the first from Tetris::new, the others from spawn_new_piece, each
\* dropped where it appeared), MaxIdleRows or fewer rows below the top.
NoneLow == [right |-> FALSE, left |-> FALSE, middle |-> FALSE]

Unmoved(n, next) ==
  Play(Call_new,
       [i \in 1..n |-> [rot |-> 0, dx |-> 0,
                        next |-> IF i = n THEN next ELSE 0]],
       1)

IdleStarts ==
  {InLoop(Unmoved(BOARD_HEIGHT - free, next)) :
     free \in 2..MaxIdleRows, next \in 0..6}

\* Gravity steps that empty cells in the columns unmoved pieces reach can
\* take: every piece has 4 cells and falls at most `free` rows.
IdleSteps == (MaxIdleRows + 1) * ((5 * (MaxIdleRows + 1)) \div 4 + 1)

\* The clock is followed long enough for that many gravity steps, one
\* every FALL_INTERVAL at the earliest and an iteration late at the latest.
IdleHorizon == IdleSteps * (FALL_INTERVAL + MaxQuanta * Quantum)

InitNoInput ==
  \E e \in IdleStarts :
    /\ game = e.obs.game
    /\ pre = e.obs.pre
    /\ op = e.obs.op
    /\ ret = e.obs.ret
    /\ drawn = e.obs.drawn
    /\ locks = e.obs.locks
    /\ removed = e.obs.removed
    /\ budget = MaxLocks
    /\ calls = <<>>
    /\ MainIs(e.main)

\* One iteration of 'game_loop in which is_low() is false for the three
\* buttons.
IterateIdle ==
  /\ pc = "loop"
  /\ \E k \in 1..MaxQuanta :
       LET t == now + k * Quantum
       IN  /\ t <= IdleHorizon
           /\ IF t - last_update >= FALL_INTERVAL /\ WillLock(game)
              THEN \E random \in RandomValues : Iterated(t, NoneLow, random)
              ELSE Iterated(t, NoneLow, 0)

NextNoInput == IterateIdle \/ Exit

\* The loop runs on and the clock advances (gravity steps keep being
\* applied); after the break main reaches its final `loop {}`.
ClockReadIdle ==
  /\ pc = "loop"
  /\ \E k \in 1..MaxQuanta : now' = now + k * Quantum /\ now' <= IdleHorizon

SpecNoInput ==
  InitNoInput /\ [][NextNoInput]_vars /\ WF_now(ClockReadIdle) /\ WF_pc(Exit)

\* ------------------------------------------------------------- SpecSpi
\* main with a bus that can fail: spi.write returns Err for one write of
\* init(), of clear() or of an iteration's drawing.
\* Faulty variant: the result of spi.write is dropped and main goes on.
expect_ignored(ok, msg, next) == [at |-> next, diag |-> ""]

\* self.spi.write(&buffer).expect("SPI write failed"): on Err the panic
\* handler prints the message and main stops; `at` is where main is then.
expect(ok, msg, next) ==
  IF ok THEN [at |-> next, diag |-> ""] ELSE [at |-> "panic", diag |-> msg]

\* The writes `ws` of a step of main with spi.write returning Err at the
\* n-th: the n - 1 before it have reached the modules, the n-th has been
\* handed to the bus, and write_reg's expect decides what follows.
SpiFails(ws, n, next) ==
  /\ sent' = SubSeq(ws, 1, n)
  /\ display' = latch(display, SubSeq(ws, 1, n - 1), 1)
  /\ \E e \in {expect(FALSE, "SPI write failed", next)} :
       /\ pc' = e.at
       /\ calls' = << [op |-> "spi.write", during |-> pc, index |-> n,
                       ret |-> "Err", diag |-> e.diag] >>
  /\ UNCHANGED budget

InitDisplayFails ==
  /\ pc = "init"
  /\ \E n \in 1..Len(Max7219_init) : SpiFails(Max7219_init, n, "clear")
  /\ UNCHANGED <<now, last_update, last_key_time, iter, intr>>
  /\ GameBecomes(Obs)

ClearDisplayFails ==
  /\ pc = "clear"
  /\ \E n \in 1..Len(Max7219_clear) : SpiFails(Max7219_clear, n, "setup")
  /\ UNCHANGED <<now, last_update, last_key_time, iter, intr>>
  /\ GameBecomes(Obs)

IteratedFailing(t, levels, random) ==
  /\ now' = t
  /\ \E st \in {Iteration(LoopState, t, levels, random)} :
       /\ last_update' = st.last_update
       /\ last_key_time' = st.last_key_time
       /\ iter' = [ran |-> TRUE, levels |-> levels, applied |-> st.applied,
                   prev_update |-> last_update,
                   prev_key_time |-> last_key_time]
       /\ GameBecomes(st.obs)
       /\ \E ws \in {draw(st.obs.game)} :
            \E n \in 1..Len(ws) : SpiFails(ws, n, LoopExit(st.obs.game))
  /\ UNCHANGED intr

IterateFails ==
  /\ pc = "loop"
  /\ \E k \in 1..MaxQuanta, levels \in Levels :
       LET t == now + k * Quantum
       IN  /\ t <= MaxTime
           /\ IF t - last_update >= FALL_INTERVAL /\ WillLock(game)
              THEN \E random \in RandomValues :
                     IteratedFailing(t, levels, random)
              ELSE IteratedFailing(t, levels, 0)

NextSpi ==
  NextLoop \/ InitDisplayFails \/ ClearDisplayFails \/ IterateFails

SpecSpi == InitLoop /\ [][NextSpi]_vars

\* ------------------------------------------------------- SpecInterrupt
\* examples/interrupt.rs: main registers the button and then polls
\* LED_STATE; the handler runs when an interrupt is taken, which the core
\* does between two steps of main unless main has disabled interrupts.
\* While the handler runs main does not.
\* Faulty variant: critical_section::with leaves interrupts enabled.
InterruptsEnabled_always(i) == TRUE

\* critical_section::with disables interrupts until its closure returns.
InterruptsEnabled(i) == "main" \notin i.in_cs

IntrStep(n) == intr' = n /\ UNCHANGED <<gameVars, loopVars>>

MainRuns == intr.hpc = "idle" /\ intr.mpc # "panic"

\* borrow_ref / borrow_ref_mut of a RefCell that is borrowed panics.
BorrowOr(cell, next) ==
  IF intr.borrowed[cell] = "free" THEN next ELSE "panic"

\* critical_section::with(|cs| { LED_STATE.borrow_ref_mut(cs); ..
RegisterEnter ==
  /\ MainRuns
  /\ intr.mpc = "start"
  /\ IntrStep([intr EXCEPT !.in_cs = @ \cup {"main"},
                           !.mpc = BorrowOr("LED_STATE", "listen")])

\* button.listen(Event::FallingEdge);
RegisterListen ==
  /\ MainRuns
  /\ intr.mpc = "listen"
  /\ IntrStep([intr EXCEPT !.listening = TRUE, !.mpc = "replace"])

\* BUTTON.borrow_ref_mut(cs).replace(button); }) and the section ends.
RegisterReplace ==
  /\ MainRuns
  /\ intr.mpc = "replace"
  /\ IF intr.borrowed.BUTTON = "free"
     THEN IntrStep([intr EXCEPT !.BUTTON = "Some",
                                !.in_cs = @ \ {"main"},
                                !.mpc = "read"])
     ELSE IntrStep([intr EXCEPT !.mpc = "panic"])

\* critical_section::with(|cs| *LED_STATE.borrow_ref(cs)): the borrow.
ReadEnter ==
  /\ MainRuns
  /\ intr.mpc = "read"
  /\ IF intr.borrowed.LED_STATE = "free"
     THEN IntrStep([intr EXCEPT !.in_cs = @ \cup {"main"},
                                !.borrowed.LED_STATE = "main",
                                !.mpc = "load"])
     ELSE IntrStep([intr EXCEPT !.in_cs = @ \cup {"main"},
                                !.mpc = "panic"])

\* let led_state = ..: the value is copied, the borrow and the section end.
ReadLoad ==
  /\ MainRuns
  /\ intr.mpc = "load"
  /\ IntrStep([intr EXCEPT !.led_state = intr.LED_STATE,
                           !.borrowed.LED_STATE = "free",
                           !.in_cs = @ \ {"main"},
                           !.mpc = "drive"])

\* if led_state { led.set_level(Level::High) } else { .. Level::Low }
Drive ==
  /\ MainRuns
  /\ intr.mpc = "drive"
  /\ IntrStep([intr EXCEPT !.led = IF intr.led_state THEN "High" ELSE "Low",
                           !.mpc = "delay"])

\* println!("Nothing to do"); delay.delay_millis(100);
Delay ==
  /\ MainRuns
  /\ intr.mpc = "delay"
  /\ IntrStep([intr EXCEPT !.mpc = "read"])

\* The button is pressed: a falling edge sets the interrupt status of a
\* pin that listens.
Press ==
  /\ intr.listening
  /\ ~intr.status
  /\ IntrStep([intr EXCEPT !.status = TRUE])

\* The GPIO interrupt is taken, for the button or for another source
\* (`spurious`), and handler() enters its critical section.
HandlerEnter ==
  /\ intr.hpc = "idle"
  /\ intr.mpc # "panic"
  /\ InterruptsEnabled(intr)
  /\ intr.runs < MaxInterrupts
  /\ \E spurious \in BOOLEAN :
       /\ intr.status \/ spurious
       /\ IntrStep([intr EXCEPT !.hpc = "borrow",
                                !.in_cs = @ \cup {"handler"}])

\* let mut button = BUTTON.borrow_ref_mut(cs);
\* let mut led_state = LED_STATE.borrow_ref_mut(cs);
HandlerBorrow ==
  /\ intr.hpc = "borrow"
  /\ IF intr.borrowed.BUTTON = "free" /\ intr.borrowed.LED_STATE = "free"
     THEN IntrStep([intr EXCEPT
            !.borrowed = [BUTTON |-> "handler", LED_STATE |-> "handler"],
            !.run = [ran |-> FALSE, registered |-> intr.BUTTON = "Some",
                     saw |-> FALSE, before |-> intr.LED_STATE,
                     after |-> intr.LED_STATE],
            !.hpc = "check"])
     ELSE IntrStep([intr EXCEPT !.hpc = "panic"])

\* let Some(button) = button.as_mut() else { return; };
\* if button.is_interrupt_set() { println!("Button pressed"); ..
HandlerCheck ==
  /\ intr.hpc = "check"
  /\ IF intr.BUTTON = "None"
     THEN IntrStep([intr EXCEPT !.ignored = @ + 1, !.hpc = "return"])
     ELSE IF intr.status
          THEN IntrStep([intr EXCEPT !.run.saw = TRUE, !.hpc = "test"])
          ELSE IntrStep([intr EXCEPT !.hpc = "return"])

\* if *led_state
HandlerTest ==
  /\ intr.hpc = "test"
  /\ IntrStep([intr EXCEPT !.tmp = intr.LED_STATE, !.hpc = "toggle"])

\* { *led_state = false; } else { *led_state = true; }
HandlerToggle ==
  /\ intr.hpc = "toggle"
  /\ IntrStep([intr EXCEPT !.LED_STATE = IF intr.tmp THEN FALSE ELSE TRUE,
                           !.hpc = "return"])

\* The closure returns: the borrows and the section end, and main goes
\* on. The HAL, which called handler(), may clear the interrupt status.
HandlerReturn ==
  /\ intr.hpc = "return"
  /\ \E cleared \in BOOLEAN :
       IntrStep([intr EXCEPT
         !.borrowed = [BUTTON |-> "free", LED_STATE |-> "free"],
         !.in_cs = @ \ {"handler"},
         !.status = IF cleared THEN FALSE ELSE @,
         !.runs = @ + 1,
         !.seen = IF intr.run.saw THEN @ + 1 ELSE @,
         !.run.ran = TRUE,
         !.run.after = intr.LED_STATE,
         !.hpc = "idle"])

NextInterrupt ==
  \/ RegisterEnter \/ RegisterListen \/ RegisterReplace
  \/ ReadEnter \/ ReadLoad \/ Drive \/ Delay
  \/ Press
  \/ HandlerEnter \/ HandlerBorrow \/ HandlerCheck \/ HandlerTest
  \/ HandlerToggle \/ HandlerReturn

InitInterrupt == StartIn({Call_new})

SpecInterrupt == InitInterrupt /\ [][NextInterrupt]_vars

\* --------------------------------------------------------- SpecLedBits
\* create_led_bits as a function of its four bytes: every combination of
\* a few values, and every value of one byte with the others 0.
ByteSamples == {0, 1, 5, 128, 255}

LedInputs ==
  (ByteSamples \X ByteSamples \X ByteSamples \X ByteSamples)
    \cup {<<v, 0, 0, 0>> : v \in 0..255} \cup {<<0, v, 0, 0>> : v \in 0..255}
    \cup {<<0, 0, v, 0>> : v \in 0..255} \cup {<<0, 0, 0, v>> : v \in 0..255}

InitLedBits == StartIn({Call_new})

CallLedBits ==
  /\ calls = <<>>
  /\ \E in \in LedInputs :
       calls' = << [op |-> "create_led_bits",
                    r |-> in[1], g |-> in[2], b |-> in[3], w |-> in[4],
                    ret |-> create_led_bits(in[1], in[2], in[3], in[4])] >>
  /\ UNCHANGED <<game, pre, op, ret, drawn, locks, removed, budget>>
  /\ UNCHANGED mainVars

NextLedBits == CallLedBits

SpecLedBits == InitLedBits /\ [][NextLedBits]_vars

\* ---------------------------------------------------------- SpecRender
\* The frame encoder as a function of the game it draws: one frame of a
\* game in play, of a lost game, or of a board holding a single cell.
SingleCell(x, y) ==
  LET g == [board |-> [EmptyBoard EXCEPT ![y][x] = "Red"],
            current_piece |-> TETROMINOS[1],
            piece_pos |-> SpawnAtLock,
            score |-> 0,
            game_over |-> TRUE,
            ran |-> 0]
  IN  [game |-> g, pre |-> g, op |-> "new", ret |-> FALSE, drawn |-> -1,
       locks |-> 0, removed |-> 0]

RenderStarts ==
  Starts \cup MoveRightStarts \cup {Brink} \cup {Over(n) : n \in 0..6}
    \cup {SingleCell(x, y) : x \in 0..(BOARD_WIDTH - 1),
                             y \in 0..(BOARD_HEIGHT - 1)}

InitRender == StartIn(RenderStarts)

RenderCall ==
  /\ sent = <<>>
  /\ \E ws \in {draw(game)} :
       /\ sent' = ws
       /\ display' = latch(display, ws, 1)
  /\ UNCHANGED <<game, pre, op, ret, drawn, locks, removed, budget, calls>>
  /\ UNCHANGED <<pc, now, last_update, last_key_time, iter, intr>>

NextRender == RenderCall

SpecRender == InitRender /\ [][NextRender]_vars

\* ------------------------------------------------ reference definitions
\* The statements below are written against these readings of the
\* specification's words, not against the operators above.
OnBoard(x, y) == 0 <= x /\ x < BOARD_WIDTH /\ 0 <= y /\ y < BOARD_HEIGHT

\* can_place as specified: every cell has 0 <= x < W and y < H and, when
\* y >= 0, is empty.
RefCanPlace(board, shape, pos) ==
  \A i \in 1..4 :
    LET x == pos[1] + shape[i][1]
        y == pos[2] + shape[i][2]
    IN  /\ 0 <= x
        /\ x < BOARD_WIDTH
        /\ y < BOARD_HEIGHT
        /\ (y >= 0 => board[y][x] = None)

\* The cells of the active piece of `self`.
PieceCells(self) ==
  {<<self.piece_pos[1] + self.current_piece.shape[i][1],
     self.piece_pos[2] + self.current_piece.shape[i][2]>> : i \in 1..4}

\* The board of `self` with the active piece's cells in the piece's colour.
RefStamp(self) ==
  [y \in 0..(BOARD_HEIGHT - 1) |->
     [x \in 0..(BOARD_WIDTH - 1) |->
        IF <<x, y>> \in PieceCells(self) THEN self.current_piece.color
        ELSE self.board[y][x]]]

RefRowFull(board, y) == \A x \in 0..(BOARD_WIDTH - 1) : board[y][x] # None

RefFullRows(board) == {y \in 0..(BOARD_HEIGHT - 1) : RefRowFull(board, y)}

\* k empty rows, then the rows that are not full in their order.
RefClear(board) ==
  LET rows == [i \in 1..BOARD_HEIGHT |-> board[i - 1]]
      NotFull(r) == \E x \in 0..(BOARD_WIDTH - 1) : r[x] = None
      kept == SelectSeq(rows, NotFull)
      k == BOARD_HEIGHT - Len(kept)
  IN  [y \in 0..(BOARD_HEIGHT - 1) |->
         IF y < k THEN [x \in 0..(BOARD_WIDTH - 1) |-> None]
         ELSE kept[(y - k) + 1]]

Below(self) == <<self.piece_pos[1], self.piece_pos[2] + 1>>

\* The last command was a gravity step that found the piece resting.
Locked ==
  /\ op = "move_down"
  /\ ~pre.game_over
  /\ ~RefCanPlace(pre.board, pre.current_piece.shape, Below(pre))

\* --------------------------------------------------------------- claims
\* C1: once the game is over it stays over, and every command called on a
\* game that is over returns false and leaves board, piece, position and
\* score as they were.
C1_GameOverAbsorbing ==
  pre.game_over => (game = pre /\ game.game_over /\ ret = FALSE)

\* C1 witness: move_down has been called on a game that was over.
C1_Witness == pre.game_over /\ op = "move_down"

\* C2: after a lock that leaves k rows full, the board is k empty rows
\* followed by the rows that were not full, in their order, and the score
\* has grown by 100 * k.
C2_LineClearReference ==
  Locked =>
    LET b == RefStamp(pre)
    IN  /\ game.board = RefClear(b)
        /\ game.score = pre.score + 100 * Cardinality(RefFullRows(b))

\* C2 witness: a lock that left two full rows with a row between them that
\* was not full.
C2_Witness ==
  /\ Locked
  /\ \E r \in 0..(BOARD_HEIGHT - 3) :
       /\ RefRowFull(RefStamp(pre), r)
       /\ ~RefRowFull(RefStamp(pre), r + 1)
       /\ RefRowFull(RefStamp(pre), r + 2)

\* C3: between commands no row of the board is full.
C3_NoFullRow == RefFullRows(game.board) = {}

\* C3 witness: a lock that left three or more rows full at once.
C3_Witness == Locked /\ Cardinality(RefFullRows(RefStamp(pre))) >= 3

\* C4: can_place returns true iff each of the four cells has 0 <= x < W
\* and y < H and, when y >= 0, is empty; it indexes no board cell outside
\* the board, and none after the first cell that fails.
C4_CanPlaceReference ==
  \A n \in 1..Len(calls) :
    LET c == calls[n]
        Fits(i) == RefCanPlace(game.board, <<c.piece[i], c.piece[i],
                                             c.piece[i], c.piece[i]>>, c.pos)
    IN  c.op = "can_place" =>
          /\ c.ret = RefCanPlace(game.board, c.piece, c.pos)
          /\ \A r \in c.reads : OnBoard(r[1], r[2])
          /\ c.reads =
               {<<c.pos[1] + c.piece[i][1], c.pos[2] + c.piece[i][2]>> :
                  i \in {j \in 1..4 : /\ \A h \in 1..(j - 1) : Fits(h)
                                      /\ OnBoard(c.pos[1] + c.piece[j][1],
                                                 c.pos[2] + c.piece[j][2])}}

\* C4 witness: can_place accepted a piece with a cell above the board.
C4_Witness ==
  /\ Len(calls) = 1
  /\ calls[1].op = "can_place"
  /\ calls[1].ret
  /\ \E i \in 1..4 : calls[1].pos[2] + calls[1].piece[i][2] < 0

\* C5: a gravity step on a running game moves the piece one row down and
\* changes nothing else when it fits there; otherwise the piece is written
\* into the board, the lines are cleared, the piece the random source
\* selects is put at the spawn coordinate, and the game is over iff that
\* piece does not fit there. Nothing else ends the game.
C5_GravityStep ==
  /\ (op = "move_down" /\ ~pre.game_over) =>
       IF RefCanPlace(pre.board, pre.current_piece.shape, Below(pre))
       THEN game = [pre EXCEPT !.piece_pos = Below(pre)]
       ELSE /\ game.board = RefClear(RefStamp(pre))
            /\ game.current_piece = TETROMINOS[(drawn % 7) + 1]
            /\ game.piece_pos = <<3, 0>>
            /\ game.game_over =
                 ~RefCanPlace(game.board, game.current_piece.shape, <<3, 0>>)
  /\ (game.game_over /\ ~pre.game_over) => Locked

\* C5 witness: a lock after which the spawned piece did not fit.
C5_Witness == Locked /\ game.game_over

\* C6: move_left and move_right on a running game return whether the piece
\* fits one column further; if so only the x position changes, by one, and
\* if not nothing changes.
C6_HorizontalMove ==
  (op \in {"move_left", "move_right"} /\ ~pre.game_over) =>
    LET to == <<pre.piece_pos[1] + (IF op = "move_left" THEN -1 ELSE 1),
                pre.piece_pos[2]>>
    IN  /\ ret = RefCanPlace(pre.board, pre.current_piece.shape, to)
        /\ ret => game = [pre EXCEPT !.piece_pos = to]
        /\ ~ret => game = pre

\* C6 witness: a move_left that was rejected on a running game.
C6_Witness == op = "move_left" /\ ~pre.game_over /\ ~ret

\* C7: every move command, move_down included, returns true exactly when
\* the piece fitted at the shifted position and was moved there.
C7_MoveReturnsSuccess ==
  (op \in {"move_left", "move_right", "move_down"} /\ ~pre.game_over) =>
    LET to == <<pre.piece_pos[1] + (CASE op = "move_left" -> -1
                                      [] op = "move_right" -> 1
                                      [] OTHER -> 0),
                pre.piece_pos[2] + (IF op = "move_down" THEN 1 ELSE 0)>>
    IN  ret = RefCanPlace(pre.board, pre.current_piece.shape, to)

\* C8: the piece the game is created with and every piece spawned after a
\* lock get the same origin.
C8_OneSpawnCoordinate ==
  (op = "new" \/ Locked) => game.piece_pos = Tetris_new.piece_pos

\* C9: rotate on a running game maps every offset (x, y) to (y, 3 - x);
\* if the piece fits so at its position the shape becomes those offsets and
\* the call returns true, otherwise nothing changes and it returns false;
\* position, colour, board, score and game_over never change, and every
\* offset is in 0..3.
C9_RotateEffect ==
  /\ (op = "rotate" /\ ~pre.game_over) =>
       LET sh == pre.current_piece.shape
           rot == [i \in 1..4 |-> <<sh[i][2], 3 - sh[i][1]>>]
       IN  /\ ret = RefCanPlace(pre.board, rot, pre.piece_pos)
           /\ ret => game = [pre EXCEPT !.current_piece.shape = rot]
           /\ ~ret => game = pre
  /\ \A i \in 1..4 :
       /\ game.current_piece.shape[i][1] \in 0..3
       /\ game.current_piece.shape[i][2] \in 0..3

\* C9 witness: a rotation that was accepted and changed the shape.
C9_Witness ==
  /\ op = "rotate"
  /\ ~pre.game_over
  /\ ret
  /\ game.current_piece.shape # pre.current_piece.shape

\* C10 as stated: four consecutive rotate() calls leave the active piece
\* with the offsets it started with.
C10_FourRotations ==
  Len(calls) = 4 => game.current_piece.shape = calls[1].before

\* C10 as amended: the transform has order 4 on each of the 7 shapes, and
\* four consecutive rotate() calls leave the active piece with the offsets
\* it started with exactly when all four are accepted or all four rejected.
C10_FourAcceptedRotations ==
  /\ \A i \in 1..7 : RotatedN(TETROMINOS[i].shape, 4) = TETROMINOS[i].shape
  /\ Len(calls) = 4 =>
       LET all == \A n \in 1..4 : calls[n].ret
           none == \A n \in 1..4 : ~calls[n].ret
       IN  (game.current_piece.shape = calls[1].before) <=> (all \/ none)

\* C10 witness: four consecutive rotate() calls, all accepted.
C10_Witness == Len(calls) = 4 /\ \A n \in 1..4 : calls[n].ret

\* C11: the score is 100 times the number of rows removed since creation;
\* it never decreases, a lock adds 100 for each row it removes, and
\* move_left, move_right, rotate and a gravity step that does not lock
\* leave it as it was.
C11_ScoreCountsRows ==
  /\ game.score = 100 * removed
  /\ game.score >= pre.score
  /\ Locked =>
       game.score = pre.score + 100 * Cardinality(RefFullRows(RefStamp(pre)))
  /\ ~Locked => game.score = pre.score

\* C11 witness: a lock that removed two or more rows.
C11_Witness == Locked /\ game.score >= pre.score + 200 /\ removed >= 2

\* The largest x of a cell of a piece with the given offsets and origin.
Rightmost(shape, pos) ==
  CHOOSE m \in {pos[1] + shape[i][1] : i \in 1..4} :
    \A i \in 1..4 : pos[1] + shape[i][1] <= m

\* The run of move_right() calls started with the I piece as it is spawned
\* (at the origin of Tetris::new or of spawn_new_piece) on the empty board.
RunFromSpawnedI ==
  /\ Len(calls) > 0
  /\ calls[1].op = "move_right"
  /\ calls[1].shape = << <<0, 1>>, <<1, 1>>, <<2, 1>>, <<3, 1>> >>
  /\ calls[1].pos \in {<<2, 0>>, <<3, 0>>}
  /\ \A y \in 0..(BOARD_HEIGHT - 1), x \in 0..(BOARD_WIDTH - 1) :
       game.board[y][x] = None

\* C12: on the empty board, starting with the I piece at its spawn
\* position, a move_right() returns true exactly while the rightmost cell
\* is left of column W - 1; the first call that fails is the one made with
\* the rightmost cell at x = W - 1, none succeeds after it, and no cell of
\* the piece is ever at x >= W.
C12_MoveRightStopsAtWall ==
  RunFromSpawnedI =>
    /\ \A n \in 1..Len(calls) :
         /\ calls[n].ret = (Rightmost(calls[n].shape, calls[n].pos)
                              < BOARD_WIDTH - 1)
         /\ Rightmost(calls[n].shape, calls[n].pos) <= BOARD_WIDTH - 1
         /\ \A m \in 1..(n - 1) : ~calls[m].ret => ~calls[n].ret
    /\ \A c \in PieceCells(game) : c[1] < BOARD_WIDTH

\* C12 witness: from the origin of Tetris::new two calls succeeded, the
\* third failed with the rightmost cell at x = W - 1, and so did a fourth.
C12_Witness ==
  /\ RunFromSpawnedI
  /\ Len(calls) >= 4
  /\ calls[1].pos = <<2, 0>>
  /\ calls[1].ret /\ calls[2].ret /\ ~calls[3].ret /\ ~calls[4].ret
  /\ Rightmost(calls[3].shape, calls[3].pos) = BOARD_WIDTH - 1

\* A frame cell is occupied when its board cell is locked or, while the
\* game is not over, a cell of the active piece is there.
RefOccupied(self, x, y) ==
  \/ self.board[y][x] # None
  \/ ~self.game_over /\ <<x, y>> \in PieceCells(self)

RefBit(byte, k) == (byte \div (2 ^ k)) % 2 = 1

\* The row writes of the frame sent last (those after the blanking).
RowWrites == SubSeq(sent, 33, Len(sent))

\* The bytes written to output row x of module k in the frame sent last.
RowBytes(k, x) ==
  {RowWrites[i].data :
     i \in {j \in 1..Len(RowWrites) :
              RowWrites[j].addr = k /\ RowWrites[j].reg = x + 1}}

\* C13: in a rendered frame, band b (board rows 8b..8b+7) is shown by one
\* module, the one addressed 4 - b; bit 7 - r of the byte sent as output
\* row x of that module is set iff frame cell (x, 8b + r) is occupied, and
\* the byte has no other bit.
C13_MatrixTranspose ==
  Len(sent) = 64 =>
    \A b \in 0..3, x \in 0..7 :
      /\ Cardinality(RowBytes(4 - b, x)) = 1
      /\ \A byte \in RowBytes(4 - b, x) :
           /\ byte \in 0..255
           /\ \A r \in 0..7 :
                RefBit(byte, 7 - r) <=> RefOccupied(game, x, 8 * b + r)

\* C13 witness: a frame of a running game with cells of the active piece
\* and locked cells in its top band.
C13_Witness ==
  /\ Len(sent) = 64
  /\ ~game.game_over
  /\ \E x \in 0..7, r \in 0..7 : game.board[r][x] # None
  /\ \E c \in PieceCells(game) : game.board[c[2]][c[1]] = None /\ c[2] < 8

\* The frame drawn has one occupied cell, at board (0, 0).
OnlyCellAtOrigin ==
  /\ Len(sent) = 64
  /\ \A x \in 0..7, y \in 0..(BOARD_HEIGHT - 1) :
       RefOccupied(game, x, y) <=> (x = 0 /\ y = 0)

C15_OneFramePerWrite ==
  \A i \in 1..Len(sent) :
    LET w == sent[i]
    IN  /\ w.addr \in 1..4
        /\ ~w.oob
        /\ DOMAIN w.buffer = 0..7
        /\ \A j \in 0..7 :
             w.buffer[j] = (IF j = 2 * (4 - w.addr) THEN w.reg
                            ELSE IF j = 2 * (4 - w.addr) + 1 THEN w.data
                            ELSE 0)
        /\ IF pc = "clear" THEN w.reg \in {9, 10, 11, 12, 15}
           ELSE w.reg \in 1..8

\* C15 witness: a frame of the game has been drawn, with a row of module 1
\* that is not blank.
C15_Witness ==
  /\ iter.ran
  /\ now > 0
  /\ \E i \in 1..Len(sent) :
       sent[i].addr = 1 /\ sent[i].data # 0 /\ sent[i].buffer[6] = sent[i].reg

\* The writes of init() as the claim lists them: <<module, register, value>>.
RefInitWrites ==
  [i \in 1..20 |->
     <<((i - 1) \div 5) + 1,
       << 9, 10, 11, 12, 15 >>[((i - 1) % 5) + 1],
       << 0, 1, 7, 1, 0 >>[((i - 1) % 5) + 1]>>]

\* C16: when init() is done each module 1..4 in turn has received the five
\* writes 0x09 <- 0, 0x0A <- 1, 0x0B <- 7, 0x0C <- 1, 0x0F <- 0, 20 in
\* all, and no row register has been written; then clear() writes 0 to
\* the 32 row registers; the game is created and the loop runs only on a
\* display so configured.
C16_InitOrder ==
  /\ pc = "init" => display = Unwritten /\ sent = <<>>
  /\ pc = "clear" =>
       /\ Len(sent) = 20
       /\ \A i \in 1..20 :
            <<sent[i].addr, sent[i].reg, sent[i].data>> = RefInitWrites[i]
       /\ \A k \in 1..4, r \in 1..8 : display[k][r] = -1
  /\ pc = "setup" =>
       /\ Len(sent) = 32
       /\ \A i \in 1..32 : sent[i].data = 0
       /\ \A k \in 1..4, r \in 1..8 : display[k][r] = 0
  /\ (pc \in {"setup", "loop", "halt"} /\ display # Unwritten) =>
       \A k \in 1..4 :
         /\ display[k][9] = 0
         /\ display[k][10] = 1
         /\ display[k][11] = 7
         /\ display[k][12] = 1
         /\ display[k][15] = 0
         /\ \A r \in 1..8 : display[k][r] # -1
  /\ iter.ran => display # Unwritten

\* C16 witness: a loop iteration has run in a game created after init()
\* and clear().
C16_Witness == iter.ran /\ locks = 0 /\ pc = "loop"

\* The commands of the last iteration that came from a button.
KeysApplied == SelectSeq(iter.applied, LAMBDA c : c # "move_down")

GravityApplied == SelectSeq(iter.applied, LAMBDA c : c = "move_down")

ClockValues == {k * Quantum : k \in 0..(MaxTime \div Quantum)}

\* The last iteration applied a gravity step iff the time it sampled was
\* 500 ms or more after the last tick; it applied one step and set the
\* tick time to the sampled time, or none and left the tick time alone.
GravityOncePerInterval ==
  iter.ran =>
    /\ Len(GravityApplied) <= 1
    /\ (Len(GravityApplied) = 1) <=> (now - iter.prev_update >= 500)
    /\ Len(GravityApplied) = 1 =>
         last_update = now /\ last_update - iter.prev_update >= 500
    /\ Len(GravityApplied) = 0 => last_update = iter.prev_update

\* C19: gravity is applied once per iteration at most, iff 500 ms or more
\* have passed since the last tick, which is then set to the sampled time
\* (a late iteration applies one step, not several); and while the game
\* runs and the clock advances, a gravity step follows every tick.
C19_GravitySchedule ==
  /\ []GravityOncePerInterval
  /\ \A t \in ClockValues :
       (pc = "loop" /\ last_update = t /\ t + 500 + Quantum <= MaxTime)
         ~> (last_update > t)

\* C19 witness: an iteration that came two intervals or more after the
\* last tick and applied one gravity step.
C19_Witness ==
  /\ iter.ran
  /\ now - iter.prev_update >= 1000
  /\ Len(GravityApplied) = 1

\* The byte that shows column x of band b of the frame of `self`.
RefColumnByte(self, b, x) ==
  CHOOSE byte \in 0..255 :
    \A r \in 0..7 : RefBit(byte, 7 - r) <=> RefOccupied(self, x, 8 * b + r)

\* C20: every iteration sends the whole frame: 32 writes that blank the
\* row registers, then one write for each of the 4 x 8 row registers,
\* after which every row register holds the transposed frame of the game
\* as the iteration left it, also when the iteration ended the game.
C20_FullFrameEveryIteration ==
  iter.ran =>
    /\ Len(sent) = 64
    /\ \A i \in 1..32 : sent[i].data = 0
    /\ \A k \in 1..4, r \in 1..8 :
         /\ Cardinality({i \in 1..32 :
                           sent[i].addr = k /\ sent[i].reg = r}) = 1
         /\ Cardinality({i \in 33..64 :
                           sent[i].addr = k /\ sent[i].reg = r}) = 1
    /\ \A b \in 0..3, x \in 0..7 :
         display[4 - b][x + 1] = RefColumnByte(game, b, x)

\* C20 witness: the iteration in which the game was lost.
C20_Witness ==
  /\ iter.ran
  /\ pc = "halt"
  /\ game.game_over
  /\ ~pre.game_over

\* C17: create_led_bits returns 33 codes; for i in 0..31 code i is the T1
\* pulse (High, 80, Low, 45) iff bit 7 - i mod 8 of byte i div 8 of
\* [g, r, b, w] is set, and the T0 pulse (High, 40, Low, 85) otherwise;
\* code 32 is the terminator (Low, 800, Low, 0). For (r, g, b, w) =
\* (5, 0, 0, 0) the T1 pulses are those at indices 13 and 15.
C17_PulseEncoder ==
  \A n \in 1..Len(calls) :
    LET c == calls[n]
        bytes == <<c.g, c.r, c.b, c.w>>
        t1 == [level1 |-> "High", length1 |-> 80,
               level2 |-> "Low", length2 |-> 45]
        t0 == [level1 |-> "High", length1 |-> 40,
               level2 |-> "Low", length2 |-> 85]
    IN  c.op = "create_led_bits" =>
          /\ DOMAIN c.ret = 0..32
          /\ \A i \in 0..31 :
               c.ret[i] = (IF RefBit(bytes[(i \div 8) + 1], 7 - (i % 8))
                           THEN t1 ELSE t0)
          /\ c.ret[32] = [level1 |-> "Low", length1 |-> 800,
                          level2 |-> "Low", length2 |-> 0]
          /\ (c.r = 5 /\ c.g = 0 /\ c.b = 0 /\ c.w = 0) =>
               {i \in 0..32 : c.ret[i] = t1} = {13, 15}

\* C17 witness: create_led_bits has been called with (5, 0, 0, 0).
C17_Witness ==
  /\ Len(calls) = 1
  /\ calls[1].op = "create_led_bits"
  /\ calls[1].r = 5 /\ calls[1].g = 0 /\ calls[1].b = 0 /\ calls[1].w = 0
  /\ calls[1].ret[13].length1 = 80

\* The end-of-iteration test: the loop has been left iff the game is over.
HaltIffGameOver ==
  /\ pc = "loop" => ~game.game_over
  /\ pc \in {"halt", "done"} => game.game_over /\ iter.ran
  /\ (iter.ran /\ game.game_over) => pc \in {"halt", "done"}

\* A step taken once the loop has been left applies no command and writes
\* nothing to the display.
QuietAfterExit ==
  pc \in {"halt", "done"} =>
    /\ pc' = "done"
    /\ game' = game /\ op' = op /\ pre' = pre /\ locks' = locks
    /\ sent' = sent /\ display' = display
    /\ last_update' = last_update /\ last_key_time' = last_key_time

\* C21: the loop is left at the end of an iteration iff the game is over
\* then, never while it is not; once it has been left no command is applied
\* to the game and nothing more is written to the display.
C21_Halt == []HaltIffGameOver /\ [][QuietAfterExit]_vars

\* C21 witness: the loop has been left and the final `loop {}` reached,
\* the last frame on the display.
C21_Witness ==
  /\ pc = "done"
  /\ game.game_over
  /\ Len(sent) = 64
  /\ display = latch(display, sent, 1)

\* spi.write has returned Err during one of the steps `where` of main.
SpiFailedDuring(where) ==
  /\ Len(calls) = 1
  /\ calls[1].op = "spi.write"
  /\ calls[1].ret = "Err"
  /\ calls[1].during \in where

\* C22: a register write that fails while a frame is drawn is skipped and
\* main goes on: the other writes of the frame are issued and the loop
\* runs its next iteration (or ends because the game is over).
C22_RenderFailureTolerated ==
  SpiFailedDuring({"loop"}) =>
    /\ pc \in {"loop", "halt", "done"}
    /\ Len(sent) = 64

\* C23: when a write of init() or of the clear() that follows it fails,
\* main stops there with the message of the panic: the failed write is the
\* last one issued, the writes before it are all the display has received,
\* no game command is applied and no iteration of the loop runs.
C23_InitFailureFatal ==
  SpiFailedDuring({"init", "clear"}) =>
    LET n == calls[1].index
        init == calls[1].during = "init"
        ws == IF init THEN RefInitWrites
              ELSE [i \in 1..32 |->
                      <<((i - 1) \div 8) + 1, ((i - 1) % 8) + 1, 0>>]
        before == IF init THEN <<>> ELSE RefInitWrites
        Written(k, r, v) ==
          \/ \E i \in 1..(n - 1) : ws[i] = <<k, r, v>>
          \/ \E i \in 1..Len(before) : before[i] = <<k, r, v>>
    IN  /\ pc = "panic"
        /\ calls[1].diag = "SPI write failed"
        /\ Len(sent) = n
        /\ \A i \in 1..n :
             <<sent[i].addr, sent[i].reg, sent[i].data>> = ws[i]
        /\ \A k \in 1..4, r \in 0..15 :
             IF display[k][r] = -1
             THEN \A v \in 0..255 : ~Written(k, r, v)
             ELSE Written(k, r, display[k][r])
        /\ ~iter.ran
        /\ op = "new"
        /\ now = 0

\* C23 witness: init() went through and a write of clear() failed.
C23_Witness ==
  /\ SpiFailedDuring({"clear"})
  /\ calls[1].index > 1
  /\ display[1][1] = 0

\* C24: in examples/interrupt.rs the two statics are borrowed only inside
\* critical sections and no borrow fails; the handler never runs while
\* main is inside one, and the value it toggles is the one it tested; a
\* handler run that finds no button registered leaves LED_STATE alone; a
\* run that finds the button's interrupt status set inverts LED_STATE
\* once, any other run leaves it, so LED_STATE is true iff the number of
\* runs that found the status set is even; and after main has driven the
\* LED its level is the one for the LED_STATE read in that iteration.
C24_InterruptSafe ==
  LET handling == intr.hpc # "idle"
  IN  /\ intr.mpc # "panic"
      /\ intr.hpc # "panic"
      /\ \A c \in {"BUTTON", "LED_STATE"} :
           /\ intr.borrowed[c] = "main" => "main" \in intr.in_cs
           /\ intr.borrowed[c] = "handler" =>
                "handler" \in intr.in_cs /\ handling
      /\ ~(handling /\ "main" \in intr.in_cs)
      /\ intr.hpc = "toggle" => intr.tmp = intr.LED_STATE
      /\ intr.BUTTON = "None" => intr.LED_STATE = TRUE /\ intr.seen = 0
      /\ intr.run.ran =>
           /\ ~intr.run.registered => ~intr.run.saw
           /\ intr.run.after =
                (IF intr.run.saw THEN ~intr.run.before ELSE intr.run.before)
      /\ ~handling => intr.LED_STATE = (intr.seen % 2 = 0)
      /\ intr.mpc = "delay" =>
           intr.led = (IF intr.led_state THEN "High" ELSE "Low")

\* C24 witness: an interrupt was taken before the button was registered
\* and two after it found the status set; main then drove the LED low
\* from the value it had read between the two.
C24_Witness ==
  /\ intr.ignored >= 1
  /\ intr.seen = 2
  /\ intr.hpc = "idle"
  /\ intr.mpc = "delay"
  /\ intr.led = "Low"
  /\ intr.LED_STATE = TRUE

\* C25: the piece spawned by a lock is entry (random mod 7) of the table,
\* with the offsets and the colour the table gives, whatever was done to
\* the piece before it; the random source is asked once by every lock and
\* by nothing else, so the values it has given are as many as the locks.
C25_PieceSelection ==
  /\ game.ran = locks
  /\ Locked =>
       /\ game.ran = pre.ran + 1
       /\ game.current_piece.shape = TETROMINOS[(drawn % 7) + 1].shape
       /\ game.current_piece.color = TETROMINOS[(drawn % 7) + 1].color
  /\ ~Locked => game.ran = pre.ran
  /\ op \in {"move_left", "move_right", "rotate"} => game.ran = pre.ran

\* C25 witness: a piece that had been rotated was locked, the random
\* source gave a value above 6, and the same kind of piece was spawned
\* with the offsets of the table.
C25_Witness ==
  /\ Locked
  /\ drawn > 6
  /\ pre.current_piece.color = game.current_piece.color
  /\ pre.current_piece.shape # game.current_piece.shape
  /\ game.current_piece = TETROMINOS[1]

\* The smallest dx of a shape.
MinDx(shape) ==
  CHOOSE m \in {shape[i][1] : i \in 1..4} : \A i \in 1..4 : m <= shape[i][1]

\* The four cells of the active piece of `self` are on the board and on
\* cells of the board that are empty.
PieceOnFreeCells(self) ==
  \A i \in 1..4 :
    LET x == self.piece_pos[1] + self.current_piece.shape[i][1]
        y == self.piece_pos[2] + self.current_piece.shape[i][2]
    IN  OnBoard(x, y) /\ self.board[y][x] = None

\* While the game runs the piece is on free cells of the board and its
\* origin is not above the board; a lock writes four such cells.
PieceInside ==
  /\ ~game.game_over =>
       PieceOnFreeCells(game) /\ game.piece_pos[2] >= 0
  /\ Locked =>
       /\ PieceOnFreeCells(pre)
       /\ Cardinality(PieceCells(pre)) = 4
       /\ pre.piece_pos[2] >= 0

\* C26 as stated: while the game is not over the four cells of the active
\* piece are on the board, on cells that are empty, the origin y is not
\* negative, and the origin x is negative only by less than the smallest
\* dx of the shape.
C26_OriginInsideStrict ==
  /\ PieceInside
  /\ (~game.game_over /\ game.piece_pos[1] < 0) =>
       0 - game.piece_pos[1] < MinDx(game.current_piece.shape)

\* C26 as amended: while the game is not over the four cells of the
\* active piece are on the board, on cells that are empty, the origin y is
\* not negative and the origin x is negative by at most the smallest dx of
\* the shape; so lock_piece writes four distinct cells of the board that
\* were empty.
C26_PieceInside ==
  /\ PieceInside
  /\ (~game.game_over /\ game.piece_pos[1] < 0) =>
       0 - game.piece_pos[1] <= MinDx(game.current_piece.shape)

\* C26 witness: a piece locked with its origin left of the board by the
\* smallest dx of its shape.
C26_Witness ==
  /\ Locked
  /\ pre.piece_pos[1] < 0
  /\ 0 - pre.piece_pos[1] = MinDx(pre.current_piece.shape)

\* The cells of a board that are occupied.
OccupiedCells(board) ==
  {c \in (0..(BOARD_WIDTH - 1)) \X (0..(BOARD_HEIGHT - 1)) :
     board[c[2]][c[1]] # None}

\* C27: the occupied cells of the board are 4 for every lock since the
\* game was created less W for every 100 points of the score; and a lock
\* that completes no row changes the board at the 4 cells of the locked
\* piece, which become occupied, and nowhere else.
C27_CellAccounting ==
  /\ Cardinality(OccupiedCells(game.board)) =
       4 * locks - BOARD_WIDTH * (game.score \div 100)
  /\ (Locked /\ RefFullRows(RefStamp(pre)) = {}) =>
       /\ Cardinality(PieceCells(pre)) = 4
       /\ \A x \in 0..(BOARD_WIDTH - 1), y \in 0..(BOARD_HEIGHT - 1) :
            IF <<x, y>> \in PieceCells(pre)
            THEN pre.board[y][x] = None /\ game.board[y][x] # None
            ELSE game.board[y][x] = pre.board[y][x]

\* C27 witness: a lock that completed no row, on a board that held cells
\* of earlier locks.
C27_Witness ==
  /\ Locked
  /\ RefFullRows(RefStamp(pre)) = {}
  /\ locks > 1
  /\ budget < MaxLocks
  /\ Cardinality(OccupiedCells(game.board)) = 4 * locks

\* C28: move_left, move_right and rotate leave the origin y as it is; a
\* gravity step on a running game moves the piece down one row, the board
\* and the shape as they were, or locks it; so the n-th gravity step of a
\* piece finds it at y = n - 1, the y of a piece never decreases, and
\* every piece is locked by its H-th gravity step at the latest.
C28_FallsUntilLocked ==
  /\ op \in {"move_left", "move_right", "rotate"} =>
       game.piece_pos[2] = pre.piece_pos[2]
  /\ ~Locked => game.piece_pos[2] >= pre.piece_pos[2]
  /\ (op = "move_down" /\ ~pre.game_over /\ ~Locked) =>
       /\ game.piece_pos[2] = pre.piece_pos[2] + 1
       /\ game.piece_pos[1] = pre.piece_pos[1]
       /\ game.board = pre.board
       /\ game.current_piece = pre.current_piece
  /\ Len(calls) <= BOARD_HEIGHT
  /\ \A n \in 1..Len(calls) :
       /\ calls[n].y = n - 1
       /\ calls[n].piece = calls[1].piece
  /\ Len(calls) > 0 =>
       /\ locks \in {calls[1].piece, calls[1].piece + 1}
       /\ (locks = calls[1].piece /\ ~game.game_over) =>
            game.piece_pos[2] = Len(calls)
       /\ locks = calls[1].piece + 1 =>
            game.game_over \/ game.piece_pos[2] = 0
       /\ (op = "move_down" /\ ~pre.game_over) =>
            (Locked <=> locks = calls[1].piece + 1)

\* C28 witness: a piece was shifted or turned on its way and locked by
\* its 31st gravity step, the longest fall there is (no shape is without a
\* cell at dy >= 1).
C28_Witness ==
  /\ Locked
  /\ Len(calls) = BOARD_HEIGHT - 1
  /\ \/ pre.piece_pos[1] # 2
     \/ pre.current_piece.shape # TETROMINOS[1].shape


\* Cells of the board no locked piece has written.
EmptyCells(board) ==
  BOARD_WIDTH * BOARD_HEIGHT - Cardinality(OccupiedCells(board))

\* What is left to fall: the empty cells, each worth a whole descent, and
\* the rows below the active piece.
FallMeasure(self) ==
  EmptyCells(self.board) * BOARD_HEIGHT
    + (BOARD_HEIGHT - 1 - self.piece_pos[2])

\* Neither a locked cell nor a cell of the active piece is in column 0 or
\* in column BOARD_WIDTH - 1.
OuterColumnsFree(self) ==
  /\ \A c \in OccupiedCells(self.board) : c[1] \in 1..(BOARD_WIDTH - 2)
  /\ \A c \in PieceCells(self) : c[1] \in 1..(BOARD_WIDTH - 2)

IdleSoFar ==
  /\ iter.ran => KeysApplied = <<>>
  /\ game.score = 0
  /\ removed = 0
  /\ OuterColumnsFree(game)
  /\ FallMeasure(game) >= 0
  /\ game.game_over => pc \in {"halt", "done"}

\* An iteration that applies the gravity step moves the piece down one row
\* or locks it, and leaves less to fall; one that does not leaves the game
\* as it was.
GravityDescends ==
  pc = "loop" =>
    IF iter'.applied = <<>> THEN game' = game
    ELSE /\ iter'.applied = <<"move_down">>
         /\ ~game.game_over
         /\ \/ /\ game'.piece_pos[2] = game.piece_pos[2] + 1
               /\ game'.board = game.board
               /\ locks' = locks
            \/ /\ locks' = locks + 1
               /\ EmptyCells(game'.board) = EmptyCells(game.board) - 4
         /\ FallMeasure(game') < FallMeasure(game)

\* C29: with no button action accepted and gravity steps applied for ever,
\* whatever pieces the random source selects: no row is cleared, the score
\* stays 0 and the outermost columns stay empty; every gravity step lowers
\* the piece or locks it and lessens a non-negative measure, so that the
\* game is over after finitely many of them; and then the loop is left.
C29_IdleGameEnds ==
  []IdleSoFar /\ [][GravityDescends]_vars /\ <>(pc = "done" /\ game.game_over)

\* C29 witness: after three gravity intervals or more and two pieces locked
\* on the lowest stack the game is over with score 0 and the loop has been
\* left.
C29_Witness ==
  /\ pc = "done"
  /\ game.game_over
  /\ game.score = 0
  /\ now >= 3 * FALL_INTERVAL
  /\ locks >= BOARD_HEIGHT - MaxIdleRows + 2

\* The command of the first button polled whose line is low: right, then
\* left, then middle.
FirstLow(levels) ==
  IF levels.right THEN "move_right"
  ELSE IF levels.left THEN "move_left"
  ELSE "rotate"

\* C30: in an iteration with the debounce gate open and some line low, the
\* one button action applied is move_right if the right line is low,
\* otherwise move_left if the left line is low, otherwise rotate; it is the
\* last command the game was given, and last_key_time is set to the time
\* sampled whether the game accepted it or not. So an iteration that reads
\* the right line low applies neither move_left nor rotate.
C30_InputPriority ==
  iter.ran =>
    LET low == iter.levels.right \/ iter.levels.left \/ iter.levels.middle
        open == now - iter.prev_key_time > debounce_duration
    IN  /\ (low /\ open) =>
             /\ KeysApplied = <<FirstLow(iter.levels)>>
             /\ op = FirstLow(iter.levels)
             /\ last_key_time = now
        /\ iter.levels.right =>
             \A n \in 1..Len(iter.applied) :
               iter.applied[n] \in {"move_down", "move_right"}
        /\ (~iter.levels.right /\ iter.levels.left) =>
             \A n \in 1..Len(iter.applied) :
               iter.applied[n] \in {"move_down", "move_left"}

\* C30 witness: the three lines low and the gate open, the game not lost:
\* the move_right applied was rejected at the right wall, and last_key_time
\* was set all the same.
C30_Witness ==
  /\ iter.ran
  /\ iter.levels = [right |-> TRUE, left |-> TRUE, middle |-> TRUE]
  /\ now - iter.prev_key_time > debounce_duration
  /\ ~game.game_over
  /\ op = "move_right"
  /\ ~ret
  /\ last_key_time = now
  /\ iter.prev_key_time < now

\* The cells lit on the display: board cell (x, y) is shown by bit
\* 7 - y mod 8 of row register x + 1 of the module addressed 4 - y div 8.
LitCells ==
  {c \in (0..(BOARD_WIDTH - 1)) \X (0..(BOARD_HEIGHT - 1)) :
     LET byte == display[4 - (c[2] \div 8)][c[1] + 1]
     IN  byte >= 0 /\ (byte \div (2 ^ (7 - (c[2] % 8)))) % 2 = 1}

\* C31: the frame an iteration leaves on the display is the locked cells of
\* the board together with the 4 cells of the active piece while the game
\* is not over, and the locked cells alone when it is over: no cell of the
\* piece whose spawn failed is lit unless a locked cell is there. That is
\* the frame on the display once the loop has been left.
C31_FrameCells ==
  iter.ran =>
    /\ ~game.game_over =>
         /\ LitCells = OccupiedCells(game.board) \cup PieceCells(game)
         /\ Cardinality(PieceCells(game)) = 4
         /\ PieceCells(game) \subseteq LitCells
    /\ game.game_over =>
         /\ LitCells = OccupiedCells(game.board)
         /\ \A c \in PieceCells(game) :
              c \in LitCells <=> game.board[c[2]][c[1]] # None
    /\ pc \in {"halt", "done"} => LitCells = OccupiedCells(game.board)

\* C31 witness: the loop has been left after the iteration that lost the
\* game; the piece whose spawn failed has a cell on an empty board cell,
\* and that cell is dark, while the piece locked last is lit.
C31_Witness ==
  /\ iter.ran
  /\ pc = "done"
  /\ game.game_over
  /\ ~pre.game_over
  /\ \E c \in PieceCells(game) :
       game.board[c[2]][c[1]] = None /\ c \notin LitCells
  /\ PieceCells(pre) \subseteq LitCells
====
